---- MODULE Spec2Model ----
(***************************************************************************)
(* Retrieval core of the Oracle store (db/store_oracle.py): the hybrid     *)
(* vector + lexical search with its min-max normaliser and merger, and the *)
(* full-text search with its dedup reducer.                                *)
(*                                                                         *)
(* Distances are integers (units of the raw distance); normalised and      *)
(* hybrid scores are exact rationals <<numerator, denominator>> with a     *)
(* positive denominator.  A Python dict is a sequence of entries with      *)
(* pairwise distinct keys, in insertion order.                             *)
(***************************************************************************)
EXTENDS Integers, Sequences, FiniteSets, TLC

\* ---------------------------------------------------------------- bounds
MaxDoc == 2          \* documents.id ranges over 1..MaxDoc
MaxDist == 2         \* raw vector_distance ranges over 0..MaxDist
MaxEmbRows == 2      \* rows the vector query can return
MaxTopK == 2         \* top_k ranges over -1..MaxTopK
AlphaDen == 2        \* alpha ranges over -1/AlphaDen..(AlphaDen + 1)/AlphaDen
MaxFtsChunk == 2     \* embeddings.chunk_index ranges over 0..MaxFtsChunk (full-text path)
MaxMetaRows == 3     \* rows the metadata LIKE query can return

DocIds == 1..MaxDoc
\* chunk 0, the chunk every lexical hit is keyed by, and another chunk
ChunkIdx == {0, 1}
Dists == 0..MaxDist
TopKs == -1..MaxTopK
Alphas == {<<n, AlphaDen>> : n \in -1..(AlphaDen + 1)}
\* Python None (no chunk_index, no metadata) and the metadata of a chunk
None == -1
ChunkMeta == 1

Min(a, b) == IF a <= b THEN a ELSE b
Max(a, b) == IF a >= b THEN a ELSE b

\* ------------------------------------------------------ exact arithmetic
Zero == <<0, 1>>
One == <<1, 1>>
R(n) == <<n, 1>>
RAdd(a, b) == <<a[1] * b[2] + b[1] * a[2], a[2] * b[2]>>
RSub(a, b) == <<a[1] * b[2] - b[1] * a[2], a[2] * b[2]>>
RMul(a, b) == <<a[1] * b[1], a[2] * b[2]>>
\* a / b for b # 0 (the code divides only under maxv != minv)
RDiv(a, b) == IF b[1] > 0 THEN <<a[1] * b[2], a[2] * b[1]>>
              ELSE <<(0 - a[1]) * b[2], a[2] * (0 - b[1])>>
REq(a, b) == a[1] * b[2] = b[1] * a[2]
RLt(a, b) == a[1] * b[2] < b[1] * a[2]
RLeq(a, b) == a[1] * b[2] <= b[1] * a[2]

\* ------------------------------------------------------------ sequences
SeqsUpTo(S, n) == UNION {[1..k -> S] : k \in 0..n}
Injective(s) == \A i, j \in 1..Len(s) : i # j => s[i] # s[j]
\* Python s[:k]
Slice(s, k) == IF k >= 0 THEN SubSeq(s, 1, Min(k, Len(s)))
               ELSE SubSeq(s, 1, Max(Len(s) + k, 0))
\* rows a "ROWNUM <= n" / "FETCH FIRST n ROWS ONLY" query can return
Limit(n) == IF n > 0 THEN n ELSE 0

\* ------------------------------------------------------------ raw hits
\* documents.source of a document
SourceOf(d) == <<"source", d>>

\* one row of search_vector turned into a hit
VectorHit(d, c, s) ==
    [doc_id |-> d, chunk_index |-> c, score |-> s,
     source |-> SourceOf(d), chunk_metadata |-> ChunkMeta]

\* one row of search_bm25 turned into a hit
Bm25Hit(d) ==
    [doc_id |-> d, chunk_index |-> 0, score |-> 1,
     source |-> SourceOf(d), chunk_metadata |-> None]

\* results of search_vector(query_vec, top_k = n): at most n rows of
\* embeddings JOIN documents, ascending by distance
VectorResults(n) ==
    {s \in SeqsUpTo({VectorHit(d, c, x) : d \in DocIds, c \in ChunkIdx, x \in Dists},
                    Min(Limit(n), MaxEmbRows)) :
        \A i \in 1..(Len(s) - 1) : s[i].score <= s[i + 1].score}

\* results of search_bm25(query, top_k = n): at most n rows of documents
\* (id is the primary key, so no document twice), in backend order
Bm25Results(n) ==
    {[i \in 1..Len(s) |-> Bm25Hit(s[i])] :
        s \in {t \in SeqsUpTo(DocIds, Min(Limit(n), MaxDoc)) : Injective(t)}}

\* ----------------------------------------------------------- the merge
Key(h) == <<h.doc_id, h.chunk_index>>
Keys(m) == {Key(m[i]) : i \in 1..Len(m)}
IndexOfKey(m, k) == CHOOSE i \in 1..Len(m) : Key(m[i]) = k

\* a dict that kept every assignment as a new entry
DictSetAlwaysAppend(m, e) == Append(m, e)

\* all_hits[key] = value on a dict: replace in place or append
DictSet(m, e) ==
    IF Key(e) \in Keys(m)
    THEN [m EXCEPT ![IndexOfKey(m, Key(e))] = e]
    ELSE Append(m, e)

VectorEntry(h) ==
    [doc_id |-> h.doc_id, chunk_index |-> h.chunk_index, score |-> h.score,
     source |-> h.source, chunk_metadata |-> h.chunk_metadata,
     vector_score |-> h.score, bm25_score |-> 0, hybrid_score |-> Zero]

LexicalEntry(h) ==
    [doc_id |-> h.doc_id, chunk_index |-> h.chunk_index, score |-> h.score,
     source |-> h.source, chunk_metadata |-> h.chunk_metadata,
     vector_score |-> 0, bm25_score |-> 1, hybrid_score |-> Zero]

RECURSIVE SeedVector(_, _)
SeedVector(m, vh) ==
    IF vh = <<>> THEN m
    ELSE SeedVector(DictSet(m, VectorEntry(Head(vh))), Tail(vh))

\* a lexical loop that only marks existing entries
RECURSIVE AddLexicalExistingOnly(_, _)
AddLexicalExistingOnly(m, bh) ==
    IF bh = <<>> THEN m
    ELSE LET h == Head(bh) IN
         AddLexicalExistingOnly(IF Key(h) \in Keys(m)
                    THEN [m EXCEPT ![IndexOfKey(m, Key(h))].bm25_score = 1]
                    ELSE m,
                    Tail(bh))

\* a lexical loop that stores the lexical hit over an existing entry
RECURSIVE AddLexicalOverwrite(_, _)
AddLexicalOverwrite(m, bh) ==
    IF bh = <<>> THEN m
    ELSE LET h == Head(bh) IN
         AddLexicalOverwrite(IF Key(h) \in Keys(m)
                    THEN [m EXCEPT ![IndexOfKey(m, Key(h))] = LexicalEntry(h)]
                    ELSE Append(m, LexicalEntry(h)),
                    Tail(bh))

\* a lexical loop that matches entries by document alone
RECURSIVE AddLexicalByDocument(_, _)
AddLexicalByDocument(m, bh) ==
    IF bh = <<>> THEN m
    ELSE LET h == Head(bh) IN
         AddLexicalByDocument(
                    IF \E i \in 1..Len(m) : m[i].doc_id = h.doc_id
                    THEN [i \in 1..Len(m) |->
                             IF m[i].doc_id = h.doc_id
                             THEN [m[i] EXCEPT !.bm25_score = 1]
                             ELSE m[i]]
                    ELSE Append(m, LexicalEntry(h)),
                    Tail(bh))

RECURSIVE AddLexical(_, _)
AddLexical(m, bh) ==
    IF bh = <<>> THEN m
    ELSE LET h == Head(bh) IN
         AddLexical(IF Key(h) \in Keys(m)
                    THEN [m EXCEPT ![IndexOfKey(m, Key(h))].bm25_score = 1]
                    ELSE Append(m, LexicalEntry(h)),
                    Tail(bh))

\* all_hits after the two loops
AllHits(vh, bh) == AddLexical(SeedVector(<<>>, vh), bh)

MinOf(S) == CHOOSE x \in S : \A y \in S : x <= y
MaxOf(S) == CHOOSE x \in S : \A y \in S : x >= y

\* a normaliser that divides also when all scores are equal
NormOfAlwaysDivides(v, minv, maxv) ==
    RSub(One, RDiv(R(v - minv), R(maxv - minv)))

\* a normaliser that forgets the inversion
NormOfNotInverted(v, minv, maxv) ==
    IF maxv # minv
    THEN RDiv(R(v - minv), R(maxv - minv))
    ELSE One

NormOf(v, minv, maxv) ==
    IF maxv # minv
    THEN RSub(One, RDiv(R(v - minv), R(maxv - minv)))
    ELSE One

\* vector_score_norm of every entry
Normalize(m) ==
    IF Len(m) > 0
    THEN LET scores == {m[i].vector_score : i \in 1..Len(m)}
             minv == MinOf(scores)
             maxv == MaxOf(scores)
         IN [i \in 1..Len(m) |-> NormOf(m[i].vector_score, minv, maxv)]
    ELSE <<>>

\* a score that forgets the (1 - alpha) weight
HybridScoreUnweighted(a, norm, bm25) == RAdd(RMul(a, norm), R(bm25))

HybridScore(a, norm, bm25) == RAdd(RMul(a, norm), RMul(RSub(One, a), R(bm25)))

\* all_hits.values() with vector_score_norm and hybrid_score filled in
Scored(m, a) ==
    LET norm == Normalize(m) IN
    [i \in 1..Len(m) |->
        [doc_id |-> m[i].doc_id, chunk_index |-> m[i].chunk_index,
         score |-> m[i].score, source |-> m[i].source,
         chunk_metadata |-> m[i].chunk_metadata,
         vector_score |-> m[i].vector_score, bm25_score |-> m[i].bm25_score,
         vector_score_norm |-> norm[i],
         hybrid_score |-> HybridScore(a, norm[i], m[i].bm25_score)]]

\* an insertion that puts e in front of its ties
RECURSIVE InsertDescTiesFirst(_, _)
InsertDescTiesFirst(s, e) ==
    IF s = <<>> THEN <<e>>
    ELSE IF RLeq(Head(s).hybrid_score, e.hybrid_score) THEN <<e>> \o s
    ELSE <<Head(s)>> \o InsertDescTiesFirst(Tail(s), e)

\* insert e behind every element whose hybrid_score is >= its own
RECURSIVE InsertDesc(_, _)
InsertDesc(s, e) ==
    IF s = <<>> THEN <<e>>
    ELSE IF RLt(Head(s).hybrid_score, e.hybrid_score) THEN <<e>> \o s
    ELSE <<Head(s)>> \o InsertDesc(Tail(s), e)

\* sorted(values, key = hybrid_score, reverse = True): stable
RECURSIVE SortedDesc(_)
SortedDesc(s) ==
    IF s = <<>> THEN <<>>
    ELSE InsertDesc(SortedDesc(SubSeq(s, 1, Len(s) - 1)), s[Len(s)])

\* r.get("chunk_index", 0): the default only when the key is absent
CitationChunk(r) == IF "chunk_index" \in DOMAIN r THEN r.chunk_index ELSE 0

\* a label that names chunk 0 whatever the hit's chunk is
WithCitationChunkZero(r) ==
    [doc_id |-> r.doc_id, chunk_index |-> r.chunk_index,
     score |-> r.score, source |-> r.source,
     chunk_metadata |-> r.chunk_metadata,
     vector_score |-> r.vector_score, bm25_score |-> r.bm25_score,
     vector_score_norm |-> r.vector_score_norm,
     hybrid_score |-> r.hybrid_score,
     citation |-> [source |-> r.source, chunk |-> 0]]

\* r["citation"] = f'{source}#chunk{n}', held as its two parts
WithCitation(r) ==
    [doc_id |-> r.doc_id, chunk_index |-> r.chunk_index,
     score |-> r.score, source |-> r.source,
     chunk_metadata |-> r.chunk_metadata,
     vector_score |-> r.vector_score, bm25_score |-> r.bm25_score,
     vector_score_norm |-> r.vector_score_norm,
     hybrid_score |-> r.hybrid_score,
     citation |-> [source |-> r.source, chunk |-> CitationChunk(r)]]

\* results of search_hybrid: the top_k best entries, each with its citation
MergeHits(vh, bh, a, k) ==
    LET top == Slice(SortedDesc(Scored(AllHits(vh, bh), a)), k)
    IN [i \in 1..Len(top) |-> WithCitation(top[i])]

\* all_hits.values() when search_hybrid returns: the entries in results are
\* the dict's own values, so those carry the citation too
FinalAllHits(vh, bh, a, k) ==
    LET m == Scored(AllHits(vh, bh), a)
        top == Slice(SortedDesc(m), k)
    IN [i \in 1..Len(m) |->
           IF Key(m[i]) \in Keys(top) THEN WithCitation(m[i]) ELSE m[i]]

\* raw hits whose records are the dict's own values, so that every write
\* to a scored entry shows in the raw hit
RawHitsAliased(hits, m) ==
    [i \in 1..Len(hits) |->
        IF Key(hits[i]) \in Keys(m) THEN m[IndexOfKey(m, Key(hits[i]))]
        ELSE hits[i]]

\* a raw hit list when search_hybrid returns: every entry of all_hits is a
\* new dict ({**h, ...}), so the writes to the entries m leave hits alone
RawHitsAfterMerge(hits, m) == hits

\* ---------------------------------------------------------- search_fts
Modes == {"documents", "metadata", "both"}
FtsChunkIdx == 0..MaxFtsChunk
\* stand-in of "chunk_index or 999999"
NullChunkRank == 999999

\* one row of the documents query turned into a hit
DocHit(d) ==
    [doc_id |-> d, chunk_index |-> None, source |-> SourceOf(d),
     chunk_metadata |-> None, search_area |-> "documents",
     dedup_key |-> <<"doc", d>>]

\* a metadata hit whose dedup key tells chunk-level from document-level origin
MetaHitKeyedByKind(d, c) ==
    [doc_id |-> d, chunk_index |-> c, source |-> SourceOf(d),
     chunk_metadata |-> ChunkMeta, search_area |-> "metadata",
     dedup_key |-> <<"chunk", d>>]

\* one row of the chunk_metadata query turned into a hit
MetaHit(d, c) ==
    [doc_id |-> d, chunk_index |-> c, source |-> SourceOf(d),
     chunk_metadata |-> ChunkMeta, search_area |-> "metadata",
     dedup_key |-> <<"doc", d>>]

\* hits of the documents query limited to n rows: no document twice
DocResults(n) ==
    {[i \in 1..Len(s) |-> DocHit(s[i])] :
        s \in {t \in SeqsUpTo(DocIds, Min(Limit(n), MaxDoc)) : Injective(t)}}

\* hits of the chunk_metadata query limited to n rows, in backend order
MetaResults(n) ==
    {[i \in 1..Len(s) |-> MetaHit(s[i][1], s[i][2])] :
        s \in SeqsUpTo(DocIds \X FtsChunkIdx, Min(Limit(n), MaxMetaRows))}

DedupKeys(g) == {g[i].dedup_key : i \in 1..Len(g)}
IndexOfDedupKey(g, k) == CHOOSE i \in 1..Len(g) : g[i].dedup_key = k

\* h.get("chunk_index") or 999999
ChunkRank(h) ==
    IF h.chunk_index = None \/ h.chunk_index = 0 THEN NullChunkRank
    ELSE h.chunk_index

\* a reducer that compares chunk ranks whatever the search areas are
DedupPutAnyArea(g, h) ==
    IF h.dedup_key \notin DedupKeys(g) THEN Append(g, h)
    ELSE LET i == IndexOfDedupKey(g, h.dedup_key) IN
         IF ChunkRank(h) < ChunkRank(g[i])
         THEN [g EXCEPT ![i] = h]
         ELSE g

\* a reducer that re-inserts a replaced key behind the others
DedupPutMoveToEnd(g, h) ==
    IF h.dedup_key \notin DedupKeys(g) THEN Append(g, h)
    ELSE LET i == IndexOfDedupKey(g, h.dedup_key) IN
         IF /\ h.search_area = "metadata"
            /\ g[i].search_area = "metadata"
            /\ ChunkRank(h) < ChunkRank(g[i])
         THEN Append(SubSeq(g, 1, i - 1) \o SubSeq(g, i + 1, Len(g)), h)
         ELSE g

\* one pass of the dedup loop over hit h: grouped afterwards
DedupPut(g, h) ==
    IF h.dedup_key \notin DedupKeys(g) THEN Append(g, h)
    ELSE LET i == IndexOfDedupKey(g, h.dedup_key) IN
         IF /\ h.search_area = "metadata"
            /\ g[i].search_area = "metadata"
            /\ ChunkRank(h) < ChunkRank(g[i])
         THEN [g EXCEPT ![i] = h]
         ELSE g

\* ---------------------------------------------------- _cosine_distance
MaxVecLen == 2       \* vectors handed to _cosine_distance have 0..MaxVecLen components
MaxComp == 1         \* vector components range over -MaxComp..MaxComp
Comps == (0 - MaxComp)..MaxComp

\* an argument of _cosine_distance: None or a list of numbers
NullVec == [null |-> TRUE, elems |-> <<>>]
ListVec(s) == [null |-> FALSE, elems |-> s]
VecArgs == {NullVec} \cup {ListVec(s) : s \in SeqsUpTo(Comps, MaxVecLen)}

\* "not a": None and the empty list are falsy
Falsy(v) == v.null \/ Len(v.elems) = 0

\* the three accumulators after i rounds of the loop: <<dot, na, nb>>
RECURSIVE CosineSums(_, _, _)
CosineSums(x, y, i) ==
    IF i = 0 THEN <<0, 0, 0>>
    ELSE LET p == CosineSums(x, y, i - 1)
         IN <<p[1] + x[i] * y[i], p[2] + x[i] * x[i], p[3] + y[i] * y[i]>>

\* what a call returns: the literal 1.0, or 1.0 - dot / (sqrt(na) * sqrt(nb))
ReturnsOne == [value |-> "1.0", dot |-> 0, na |-> 0, nb |-> 0]
ReturnsFormula(dot, na, nb) ==
    IF na * nb = 0
    THEN [value |-> "ZeroDivisionError", dot |-> dot, na |-> na, nb |-> nb]
    ELSE [value |-> "1.0 - dot/(sqrt(na)*sqrt(nb))", dot |-> dot, na |-> na, nb |-> nb]
NoDistance == [value |-> "none", dot |-> 0, na |-> 0, nb |-> 0]

\* a degenerate-magnitude test that wants both sums to vanish
CosineDistanceBothZero(a, b) ==
    IF Falsy(a) \/ Falsy(b) THEN ReturnsOne
    ELSE LET n == Min(Len(a.elems), Len(b.elems))
             s == CosineSums(a.elems, b.elems, n)
         IN IF s[2] <= 0 /\ s[3] <= 0 THEN ReturnsOne
            ELSE ReturnsFormula(s[1], s[2], s[3])

CosineDistance(a, b) ==
    IF Falsy(a) \/ Falsy(b) THEN ReturnsOne
    ELSE LET n == Min(Len(a.elems), Len(b.elems))
             s == CosineSums(a.elems, b.elems, n)
         IN IF s[2] <= 0 \/ s[3] <= 0 THEN ReturnsOne
            ELSE ReturnsFormula(s[1], s[2], s[3])

\* ------------------------------------------------------ vector encoding
MaxEncLen == 3       \* encoded vectors have 0..MaxEncLen components

\* a value handed to an encoder: None, a list, a numpy array or a string
NoneValue == [kind |-> "none", elems |-> <<>>, text |-> <<>>]
SeqValue(k, s) == [kind |-> k, elems |-> s, text |-> <<>>]
StrValue(t) == [kind |-> "str", elems |-> <<>>, text |-> t]
\* the strings "", "[1.0]" and "a", as their characters
StrTexts == {<<>>, <<"[", "1", ".", "0", "]">>, <<"a">>}
EncValues ==
    {NoneValue}
    \cup {SeqValue(k, s) : k \in {"list", "ndarray"}, s \in SeqsUpTo(Comps, MaxEncLen)}
    \cup {StrValue(t) : t \in StrTexts}

\* a wire form: a text (its characters), SQL NULL, or an exception raised
TextWire(t) == [kind |-> "text", text |-> t]
NullWire == [kind |-> "null", text |-> <<>>]
RaisedWire == [kind |-> "raise", text |-> <<>>]
NoWire == [kind |-> "none", text |-> <<>>]
EmptyVectorWire == TextWire(<<"[", "]">>)

Digits == <<"0", "1", "2", "3", "4", "5", "6", "7", "8", "9">>
\* str(float(x)) of a whole number x, -9 <= x <= 9
FloatStr(x) ==
    (IF x < 0 THEN <<"-">> ELSE <<>>)
    \o <<Digits[(IF x < 0 THEN 0 - x ELSE x) + 1], ".", "0">>

\* ",".join(str(float(x)) for x in seq)
RECURSIVE JoinFloats(_)
JoinFloats(s) ==
    IF s = <<>> THEN <<>>
    ELSE IF Len(s) = 1 THEN FloatStr(s[1])
    ELSE FloatStr(s[1]) \o <<",">> \o JoinFloats(Tail(s))

DenseLiteral(s) == <<"[">> \o JoinFloats(s) \o <<"]">>

\* float(c) of the first character of a modelled string raises ValueError
FloatOfCharsRaises(t) == t # <<>>
IsLiteral(t) == Len(t) >= 1 /\ t[1] = "[" /\ t[Len(t)] = "]"

\* a bind processor without its None branch: list(None) raises inside the try
BindProcessNoNoneBranch(v) ==
    IF v.kind \in {"list", "ndarray"} THEN TextWire(DenseLiteral(v.elems))
    ELSE IF v.kind = "str" /\ ~FloatOfCharsRaises(v.text) THEN TextWire(DenseLiteral(<<>>))
    ELSE IF v.kind = "str" /\ IsLiteral(v.text) THEN TextWire(v.text)
    ELSE EmptyVectorWire

\* process(value) of Vector.bind_processor
BindProcess(v) ==
    IF v.kind = "none" THEN NullWire
    ELSE IF v.kind \in {"list", "ndarray"} THEN TextWire(DenseLiteral(v.elems))
    ELSE IF ~FloatOfCharsRaises(v.text) THEN TextWire(DenseLiteral(<<>>))
    ELSE IF IsLiteral(v.text) THEN TextWire(v.text)
    ELSE EmptyVectorWire

\* qv_text of search_vector: the float conversion runs outside the try
QueryVectorText(v) ==
    IF v.kind = "none" THEN TextWire(DenseLiteral(<<>>))
    ELSE IF v.kind \in {"list", "ndarray"} THEN TextWire(DenseLiteral(v.elems))
    ELSE IF FloatOfCharsRaises(v.text) THEN RaisedWire
    ELSE TextWire(DenseLiteral(<<>>))

\* ------------------------------------------------------------- state
VARIABLES
    hpc,          \* position of the search_hybrid call
    top_k,        \* its top_k argument
    alpha,        \* its alpha argument
    vector_hits,  \* list returned by search_vector
    bm25_hits,    \* list returned by search_bm25
    all_hits,     \* values of the all_hits dict of search_hybrid, in insertion order
    results,      \* list returned by search_hybrid
    calls,        \* collaborator invocations made by the current call
    failed,       \* the collaborator whose exception ended the call
    fpc,          \* position of the search_fts call
    fmode,        \* its mode argument
    ftop_k,       \* its top_k argument
    fall_hits,    \* all_hits of search_fts
    grouped,      \* grouped of search_fts
    fi,           \* index of the next hit of all_hits the dedup loop reads
    fresults,     \* list returned by search_fts
    dpc,          \* position of the _cosine_distance call
    da,           \* its argument a
    db,           \* its argument b
    dresult,      \* what it returns
    epc,          \* position of the vector encoding call
    eop,          \* which encoder runs: the bind processor or search_vector
    evalue,       \* the vector value handed to the encoder
    ewire,        \* the wire form the encoder produces
    sessions,     \* rows of the embedding_sessions table, in insertion order
    now,          \* datetime.utcnow(), counted in calls made so far
    sop,          \* the session function called last
    sname,        \* its session_name argument
    sret          \* what it returned

hvars == <<hpc, top_k, alpha, vector_hits, bm25_hits, all_hits, results, calls, failed>>
fvars == <<fpc, fmode, ftop_k, fall_hits, grouped, fi, fresults>>
dvars == <<dpc, da, db, dresult>>
evars == <<epc, eop, evalue, ewire>>
svars == <<sessions, now, sop, sname, sret>>
vars == <<hpc, top_k, alpha, vector_hits, bm25_hits, all_hits, results, calls, failed,
          fpc, fmode, ftop_k, fall_hits, grouped, fi, fresults,
          dpc, da, db, dresult, epc, eop, evalue, ewire,
          sessions, now, sop, sname, sret>>

\* defaults of search_hybrid(query, top_k=5, alpha=0.5)
DefaultTopK == 5
DefaultAlpha == <<1, 2>>
\* defaults of search_fts(query, top_k=10, mode="both")
DefaultFtsTopK == 10
DefaultMode == "both"

NoCalls == [embed |-> 0, vector |-> 0, bm25 |-> 0]

Init ==
    /\ hpc = "idle"
    /\ top_k = DefaultTopK
    /\ alpha = DefaultAlpha
    /\ vector_hits = <<>>
    /\ bm25_hits = <<>>
    /\ all_hits = <<>>
    /\ results = <<>>
    /\ calls = NoCalls
    /\ failed = "none"
    /\ fpc = "idle"
    /\ fmode = DefaultMode
    /\ ftop_k = DefaultFtsTopK
    /\ fall_hits = <<>>
    /\ grouped = <<>>
    /\ fi = 1
    /\ fresults = <<>>
    /\ dpc = "idle"
    /\ da = NullVec
    /\ db = NullVec
    /\ dresult = NoDistance
    /\ epc = "idle"
    /\ eop = "bind"
    /\ evalue = NoneValue
    /\ ewire = NoWire
    /\ sessions = <<>>
    /\ now = 0
    /\ sop = "none"
    /\ sname = None
    /\ sret = "none"

\* ------------------------------------------------------- search_hybrid
\* a caller invokes search_hybrid(query, top_k, alpha)
CallHybrid ==
    /\ hpc = "idle"
    /\ \E k \in TopKs, a \in Alphas :
        /\ top_k' = k
        /\ alpha' = a
    /\ hpc' = "embed"
    /\ vector_hits' = <<>>
    /\ bm25_hits' = <<>>
    /\ all_hits' = <<>>
    /\ results' = <<>>
    /\ calls' = NoCalls
    /\ failed' = "none"
    /\ UNCHANGED <<fvars, dvars, evars, svars>>

\* Embedder().embed([query])[0] returns the query vector
Embed ==
    /\ hpc = "embed"
    /\ calls' = [calls EXCEPT !.embed = @ + 1]
    /\ hpc' = "vector"
    /\ UNCHANGED <<top_k, alpha, vector_hits, bm25_hits, all_hits, results, failed>>
    /\ UNCHANGED <<fvars, dvars, evars, svars>>

\* the embedder raises; no handler in search_hybrid
EmbedRaises ==
    /\ hpc = "embed"
    /\ calls' = [calls EXCEPT !.embed = @ + 1]
    /\ failed' = "embed"
    /\ hpc' = "raised"
    /\ UNCHANGED <<top_k, alpha, vector_hits, bm25_hits, all_hits, results>>
    /\ UNCHANGED <<fvars, dvars, evars, svars>>

\* vector_hits = search_vector(query_vec, top_k = top_k * 2)
SearchVector ==
    /\ hpc = "vector"
    /\ calls' = [calls EXCEPT !.vector = @ + 1]
    /\ \E vh \in VectorResults(top_k * 2) : vector_hits' = vh
    /\ hpc' = "bm25"
    /\ UNCHANGED <<top_k, alpha, bm25_hits, all_hits, results, failed>>
    /\ UNCHANGED <<fvars, dvars, evars, svars>>

\* search_vector raises (storage failure); no handler in search_hybrid
SearchVectorRaises ==
    /\ hpc = "vector"
    /\ calls' = [calls EXCEPT !.vector = @ + 1]
    /\ failed' = "vector"
    /\ hpc' = "raised"
    /\ UNCHANGED <<top_k, alpha, vector_hits, bm25_hits, all_hits, results>>
    /\ UNCHANGED <<fvars, dvars, evars, svars>>

\* bm25_hits = search_bm25(query, top_k = top_k * 2)
SearchBm25 ==
    /\ hpc = "bm25"
    /\ calls' = [calls EXCEPT !.bm25 = @ + 1]
    /\ \E bh \in Bm25Results(top_k * 2) : bm25_hits' = bh
    /\ hpc' = "merge"
    /\ UNCHANGED <<top_k, alpha, vector_hits, all_hits, results, failed>>
    /\ UNCHANGED <<fvars, dvars, evars, svars>>

\* search_bm25 raises (storage failure); no handler in search_hybrid
SearchBm25Raises ==
    /\ hpc = "bm25"
    /\ calls' = [calls EXCEPT !.bm25 = @ + 1]
    /\ failed' = "bm25"
    /\ hpc' = "raised"
    /\ UNCHANGED <<top_k, alpha, vector_hits, bm25_hits, all_hits, results>>
    /\ UNCHANGED <<fvars, dvars, evars, svars>>

\* the merge, ranking and citation; search_hybrid returns results
Merge ==
    /\ hpc = "merge"
    /\ all_hits' = FinalAllHits(vector_hits, bm25_hits, alpha, top_k)
    /\ results' = MergeHits(vector_hits, bm25_hits, alpha, top_k)
    /\ vector_hits' = RawHitsAfterMerge(vector_hits,
                          FinalAllHits(vector_hits, bm25_hits, alpha, top_k))
    /\ bm25_hits' = RawHitsAfterMerge(bm25_hits,
                          FinalAllHits(vector_hits, bm25_hits, alpha, top_k))
    /\ hpc' = "done"
    /\ UNCHANGED <<top_k, alpha, calls, failed>>
    /\ UNCHANGED <<fvars, dvars, evars, svars>>

\* the caller has the list or the exception and the call's frame is gone
HybridReturn ==
    /\ hpc \in {"done", "raised"}
    /\ hpc' = "idle"
    /\ top_k' = DefaultTopK
    /\ alpha' = DefaultAlpha
    /\ vector_hits' = <<>>
    /\ bm25_hits' = <<>>
    /\ all_hits' = <<>>
    /\ results' = <<>>
    /\ calls' = NoCalls
    /\ failed' = "none"
    /\ UNCHANGED <<fvars, dvars, evars, svars>>

NextHybrid ==
    \/ CallHybrid
    \/ Embed
    \/ EmbedRaises
    \/ SearchVector
    \/ SearchVectorRaises
    \/ SearchBm25
    \/ SearchBm25Raises
    \/ Merge
    \/ HybridReturn

SpecHybrid == Init /\ [][NextHybrid]_vars

\* ------------------------------------------------- claims: search_hybrid
AlphaInRange == RLeq(Zero, alpha) /\ RLeq(alpha, One)

\* C1: the list returned by search_hybrid holds no two entries with the
\* same (document_id, chunk_index), whatever keys repeat in the vector hits
\* or occur on both sides.
C1_UniqueKeys ==
    hpc = "done" =>
        \A i, j \in 1..Len(results) : i # j => Key(results[i]) # Key(results[j])

C1_Witness ==
    /\ hpc = "done"
    /\ \E i, j \in 1..Len(vector_hits) :
          i # j /\ Key(vector_hits[i]) = Key(vector_hits[j])
    /\ Keys(vector_hits) \cap Keys(bm25_hits) # {}
    /\ Len(results) >= 2

\* C2: the returned list is exactly the first min(top_k, n) of the n merged
\* entries ordered by hybrid_score descending, equal scores in insertion
\* order: it has that length, every returned entry is a merged entry, the
\* returned entries are so ordered, and every merged entry left out comes
\* behind every returned one in that order (so none has a higher score).
C2_TopKStableDesc ==
    hpc = "done" =>
        LET n == Len(all_hits)
            pos(i) == IndexOfKey(all_hits, Key(results[i]))
            Before(p, q) ==
                \/ RLt(all_hits[q].hybrid_score, all_hits[p].hybrid_score)
                \/ /\ REq(all_hits[q].hybrid_score, all_hits[p].hybrid_score)
                   /\ p < q
        IN /\ Len(results) = Max(0, Min(top_k, n))
           /\ \A i \in 1..Len(results) :
                 /\ Key(results[i]) \in Keys(all_hits)
                 /\ results[i] = all_hits[pos(i)]
           /\ \A i, j \in 1..Len(results) : i < j => Before(pos(i), pos(j))
           /\ \A q \in 1..n :
                 Key(all_hits[q]) \notin Keys(results) =>
                     \A i \in 1..Len(results) : Before(pos(i), q)

C2_Witness ==
    /\ hpc = "done"
    /\ top_k >= 1
    /\ Len(results) = top_k
    /\ Len(all_hits) > top_k
    /\ \E p, q \in 1..Len(all_hits) :
          /\ p < q
          /\ REq(all_hits[p].hybrid_score, all_hits[q].hybrid_score)
          /\ Key(all_hits[p]) \in Keys(results)
          /\ Key(all_hits[q]) \notin Keys(results)
    /\ \E p, q \in 1..Len(all_hits) :
          RLt(all_hits[p].hybrid_score, all_hits[q].hybrid_score)

\* C3: for alpha in [0,1] every merged entry has vector_score_norm in [0,1],
\* lexical score 0 or 1, and hybrid_score in [0,1].
C3_HybridScoreInUnitInterval ==
    (hpc = "done" /\ AlphaInRange) =>
        \A i \in 1..Len(all_hits) :
            /\ RLeq(Zero, all_hits[i].vector_score_norm)
            /\ RLeq(all_hits[i].vector_score_norm, One)
            /\ all_hits[i].bm25_score \in {0, 1}
            /\ RLeq(Zero, all_hits[i].hybrid_score)
            /\ RLeq(all_hits[i].hybrid_score, One)

C3_Witness ==
    /\ hpc = "done"
    /\ RLt(Zero, alpha) /\ RLt(alpha, One)
    /\ \E i \in 1..Len(all_hits) : REq(all_hits[i].hybrid_score, One)
    /\ \E i \in 1..Len(all_hits) : REq(all_hits[i].hybrid_score, Zero)
    /\ \E i \in 1..Len(all_hits) :
          RLt(Zero, all_hits[i].hybrid_score) /\ RLt(all_hits[i].hybrid_score, One)

\* C4: a failing vector or lexical sub-query never ends the call with an
\* error: the call goes on to the merge with an empty list for that side.
C4_SubQueryFailureDegrades ==
    failed \in {"vector", "bm25"} => hpc # "raised"

\* C5: a call with alpha outside [0,1] or top_k <= 0 invokes neither the
\* embedder nor a storage sub-query.
C5_InvalidParameterBeforeIO ==
    (hpc # "idle" /\ (~AlphaInRange \/ top_k <= 0)) => calls = NoCalls

\* C6: empty inputs raise nothing: two empty hit lists give the empty list;
\* with exactly one side empty the result is the ranking of the other
\* side's keys alone, as many of them as top_k allows.
C6_EmptyInputsDegrade ==
    hpc = "done" =>
        /\ (vector_hits = <<>> /\ bm25_hits = <<>>) => results = <<>>
        /\ (vector_hits = <<>> /\ bm25_hits # <<>>) =>
              /\ Keys(results) \subseteq Keys(bm25_hits)
              /\ Len(results) = Min(top_k, Cardinality(Keys(bm25_hits)))
        /\ (vector_hits # <<>> /\ bm25_hits = <<>>) =>
              /\ Keys(results) \subseteq Keys(vector_hits)
              /\ Len(results) = Min(top_k, Cardinality(Keys(vector_hits)))

C6_Witness ==
    /\ hpc = "done"
    /\ vector_hits = <<>>
    /\ Len(bm25_hits) = 2
    /\ Len(results) = 2

\* ----------------------------------------------------------- search_fts
\* a caller invokes search_fts(query, top_k, mode); the two LIKE queries
\* the mode selects fill all_hits, document hits first
CallFts ==
    /\ fpc = "idle"
    /\ \E k \in TopKs, mode \in Modes :
        /\ ftop_k' = k
        /\ fmode' = mode
        /\ \E dh \in DocResults(k * 4), mh \in MetaResults(k * 8) :
              fall_hits' = (IF mode \in {"documents", "both"} THEN dh ELSE <<>>)
                           \o (IF mode \in {"metadata", "both"} THEN mh ELSE <<>>)
    /\ grouped' = <<>>
    /\ fi' = 1
    /\ fresults' = <<>>
    /\ fpc' = "dedup"
    /\ UNCHANGED <<hvars, dvars, evars, svars>>

\* one iteration of "for h in all_hits"
FtsDedupStep ==
    /\ fpc = "dedup"
    /\ fi <= Len(fall_hits)
    /\ grouped' = DedupPut(grouped, fall_hits[fi])
    /\ fi' = fi + 1
    /\ UNCHANGED <<fpc, fmode, ftop_k, fall_hits, fresults>>
    /\ UNCHANGED <<hvars, dvars, evars, svars>>

\* return list(grouped.values())[:top_k]
FtsReturn ==
    /\ fpc = "dedup"
    /\ fi > Len(fall_hits)
    /\ fresults' = Slice(grouped, ftop_k)
    /\ fpc' = "done"
    /\ UNCHANGED <<fmode, ftop_k, fall_hits, grouped, fi>>
    /\ UNCHANGED <<hvars, dvars, evars, svars>>

\* the caller has the list and the call's frame is gone
FtsDone ==
    /\ fpc = "done"
    /\ fpc' = "idle"
    /\ fmode' = DefaultMode
    /\ ftop_k' = DefaultFtsTopK
    /\ fall_hits' = <<>>
    /\ grouped' = <<>>
    /\ fi' = 1
    /\ fresults' = <<>>
    /\ UNCHANGED <<hvars, dvars, evars, svars>>

NextFts ==
    \/ CallFts
    \/ FtsDedupStep
    \/ FtsReturn
    \/ FtsDone

SpecFts == Init /\ [][NextFts]_vars

\* ---------------------------------------------------- claims: search_fts
\* the dedup keys of a hit list in the order of their first occurrence
RECURSIVE FirstSeenKeys(_)
FirstSeenKeys(hs) ==
    IF hs = <<>> THEN <<>>
    ELSE LET front == FirstSeenKeys(SubSeq(hs, 1, Len(hs) - 1))
             k == hs[Len(hs)].dedup_key
         IN IF \E i \in 1..Len(front) : front[i] = k THEN front
            ELSE Append(front, k)

\* the hit with the lower chunk_index, None above every index
LowerChunk(a, b) ==
    IF a.chunk_index = None THEN b
    ELSE IF b.chunk_index = None THEN a
    ELSE IF b.chunk_index < a.chunk_index THEN b ELSE a

\* C7: when the stored hit of a dedup key and the incoming hit of that key
\* are both metadata-area hits, the dedup step keeps the one with the lower
\* chunk_index (0 included, None above every index).
C7_LowerChunkIndexKept ==
    [][(/\ fpc = "dedup"
        /\ fi <= Len(fall_hits)
        /\ fall_hits[fi].search_area = "metadata"
        /\ fall_hits[fi].dedup_key \in DedupKeys(grouped)
        /\ grouped[IndexOfDedupKey(grouped, fall_hits[fi].dedup_key)].search_area
              = "metadata")
       => LET i == IndexOfDedupKey(grouped, fall_hits[fi].dedup_key)
          IN grouped'[i].chunk_index
                = LowerChunk(grouped[i], fall_hits[fi]).chunk_index]_vars

\* C8: while the dedup loop runs, a document-area hit stored for a key stays
\* the stored hit of that key, at the same place, whatever hit comes next.
C8_DocumentHitNeverDisplaced ==
    [][fpc = "dedup" =>
        \A i \in 1..Len(grouped) :
            grouped[i].search_area = "documents" =>
                (Len(grouped') >= i /\ grouped'[i] = grouped[i])]_vars

C8_Witness ==
    /\ fpc = "dedup"
    /\ \E i \in 1..Len(grouped) :
          /\ grouped[i].search_area = "documents"
          /\ \E j \in 1..(fi - 1) :
                /\ fall_hits[j].search_area = "metadata"
                /\ fall_hits[j].dedup_key = grouped[i].dedup_key
                /\ fall_hits[j].chunk_index > 0

\* C9: search_fts returns one representative for each of the first top_k
\* dedup keys, in the order in which the keys first occur in the hit
\* sequence (document hits precede metadata hits there), also for a key
\* whose representative was replaced.
C9_FirstSeenKeyOrder ==
    fpc = "done" =>
        LET keys == FirstSeenKeys(fall_hits) IN
        /\ Len(fresults) = Max(0, Min(ftop_k, Len(keys)))
        /\ \A i \in 1..Len(fresults) :
              /\ fresults[i].dedup_key = keys[i]
              /\ \E j \in 1..Len(fall_hits) : fall_hits[j] = fresults[i]
        /\ \A i, j \in 1..Len(fall_hits) :
              (fall_hits[i].search_area = "metadata"
                 /\ fall_hits[j].search_area = "documents") => j < i

C9_Witness ==
    /\ fpc = "done"
    /\ Len(fresults) = 2
    /\ \E j, l \in 1..Len(fall_hits) :
          /\ l < j
          /\ fall_hits[l].dedup_key = fresults[2].dedup_key
          /\ fall_hits[j] = fresults[1]
          /\ \E f \in 1..(l - 1) :
                /\ fall_hits[f].dedup_key = fresults[1].dedup_key
                /\ fall_hits[f] # fresults[1]

\* C10: whatever the mode and the raw hits, no two hits returned by
\* search_fts have the same document_id.
C10_OneHitPerDocument ==
    fpc = "done" =>
        \A i, j \in 1..Len(fresults) :
            i # j => fresults[i].doc_id # fresults[j].doc_id

C10_Witness ==
    /\ fpc = "done"
    /\ fmode = "both"
    /\ \E d \in DocIds :
          /\ \E j \in 1..Len(fall_hits) :
                fall_hits[j].doc_id = d /\ fall_hits[j].search_area = "documents"
          /\ Cardinality({j \in 1..Len(fall_hits) :
                fall_hits[j].doc_id = d /\ fall_hits[j].search_area = "metadata"}) >= 2
          /\ \E i \in 1..Len(fresults) : fresults[i].doc_id = d
    /\ Len(fresults) >= 2

\* ------------------------------------- claims: search_hybrid (continued)
\* C11: every returned hit carries the citation made of its source and its
\* chunk_index, with 0 standing for a null chunk_index.
C11_CitationLabel ==
    hpc = "done" =>
        \A i \in 1..Len(results) :
            /\ results[i].source = SourceOf(results[i].doc_id)
            /\ results[i].citation =
                  [source |-> results[i].source,
                   chunk |-> IF results[i].chunk_index = None THEN 0
                             ELSE results[i].chunk_index]

C11_Witness ==
    /\ hpc = "done"
    /\ \E i, j \in 1..Len(results) :
          /\ results[i].chunk_index = 1
          /\ results[j].chunk_index = 0
          /\ results[i].citation.chunk = 1

\* ----------------------------------------------------- _cosine_distance
\* a caller invokes _cosine_distance(a, b) and gets its value
CallCosine ==
    /\ dpc = "idle"
    /\ \E a \in VecArgs, b \in VecArgs :
        /\ da' = a
        /\ db' = b
        /\ dresult' = CosineDistance(a, b)
    /\ dpc' = "done"
    /\ UNCHANGED <<hvars, fvars, evars, svars>>

\* the caller has the value and the call's frame is gone
CosineReturn ==
    /\ dpc = "done"
    /\ dpc' = "idle"
    /\ da' = NullVec
    /\ db' = NullVec
    /\ dresult' = NoDistance
    /\ UNCHANGED <<hvars, fvars, evars, svars>>

NextCosine ==
    \/ CallCosine
    \/ CosineReturn

SpecCosine == Init /\ [][NextCosine]_vars

\* ------------------------------------------------------- vector encoding
\* SQLAlchemy binds a value to a Vector column
BindVector ==
    /\ epc = "idle"
    /\ \E v \in EncValues :
        /\ evalue' = v
        /\ ewire' = BindProcess(v)
    /\ eop' = "bind"
    /\ epc' = "done"
    /\ UNCHANGED <<hvars, fvars, dvars, svars>>

\* search_vector turns query_vec into the bind text qv_text
EncodeQueryVector ==
    /\ epc = "idle"
    /\ \E v \in EncValues :
        /\ evalue' = v
        /\ ewire' = QueryVectorText(v)
    /\ eop' = "query"
    /\ epc' = "done"
    /\ UNCHANGED <<hvars, fvars, dvars, svars>>

\* the wire form is handed on and the call's frame is gone
EncodeReturn ==
    /\ epc = "done"
    /\ epc' = "idle"
    /\ eop' = "bind"
    /\ evalue' = NoneValue
    /\ ewire' = NoWire
    /\ UNCHANGED <<hvars, fvars, dvars, svars>>

NextCodec ==
    \/ BindVector
    \/ EncodeQueryVector
    \/ EncodeReturn

SpecCodec == Init /\ [][NextCodec]_vars

\* ----------------------------------- claims: distance and vector encoding
\* no components, or only zero components
ZeroMagnitude(v) == \A i \in 1..Len(v.elems) : v.elems[i] = 0

\* C13: _cosine_distance returns the literal 1.0, and raises nothing, when
\* one of its arguments is None, empty or of zero magnitude, whatever the
\* other argument and the two lengths are.
C13_DegenerateDistanceIsOne ==
    (dpc = "done" /\ (da.null \/ ZeroMagnitude(da) \/ db.null \/ ZeroMagnitude(db)))
        => dresult = ReturnsOne

C13_Witness ==
    /\ dpc = "done"
    /\ Len(da.elems) = 2 /\ ~ZeroMagnitude(da)
    /\ Len(db.elems) = 1 /\ ZeroMagnitude(db)
    /\ dresult = ReturnsOne

EmptyOrNull(v) ==
    v.kind = "none" \/ (v.kind \in {"list", "ndarray"} /\ v.elems = <<>>)

\* C14 as claimed: either encoder turns an empty or a null vector into the
\* text "[]".
C14_EmptyOrNullEncodesToEmptyLiteral ==
    (epc = "done" /\ EmptyOrNull(evalue)) => ewire = EmptyVectorWire

\* C14 as amended: neither encoder raises on an empty or a null vector; an
\* empty vector becomes "[]" in both; a null vector becomes "[]" in
\* search_vector and stays null in the bind processor.
C14_EmptyOrNullEncoding ==
    (epc = "done" /\ EmptyOrNull(evalue)) =>
        IF eop = "bind" /\ evalue.kind = "none"
        THEN ewire = NullWire
        ELSE ewire = EmptyVectorWire

C14_Witness ==
    /\ epc = "done"
    /\ eop = "bind"
    /\ evalue.kind = "none"
    /\ ewire = NullWire

\* ------------------------------------- claims: search_hybrid (continued)
VectorScores == {all_hits[i].vector_score : i \in 1..Len(all_hits)}

\* C15: when the merged set is not empty and all its vector_score values
\* are equal, every vector_score_norm is the literal 1.0 (nothing divided).
C15_EqualScoresNormalizeToOne ==
    (hpc = "done" /\ Len(all_hits) > 0 /\ Cardinality(VectorScores) = 1) =>
        \A i \in 1..Len(all_hits) : all_hits[i].vector_score_norm = One

C15_Witness ==
    /\ hpc = "done"
    /\ Len(all_hits) >= 2
    /\ VectorScores = {1}
    /\ \A i \in 1..Len(all_hits) : all_hits[i].vector_score_norm = One

\* the raw distance the vector loop leaves under key k: that of the last
\* vector hit with this key
LastVectorScore(k) ==
    LET last == CHOOSE i \in 1..Len(vector_hits) :
                    /\ Key(vector_hits[i]) = k
                    /\ \A j \in (i + 1)..Len(vector_hits) : Key(vector_hits[j]) # k
    IN vector_hits[last].score

\* C16: the merged keys are those of the two hit lists; an entry whose key
\* is a vector key keeps the vector hit's distance as vector_score and the
\* vector hit's own fields, with lexical score 1 exactly when the key is a
\* lexical key too; an entry whose key is a lexical key only has
\* vector_score 0 and lexical score 1.
C16_SeededScores ==
    hpc = "done" =>
        /\ Keys(all_hits) = Keys(vector_hits) \cup Keys(bm25_hits)
        /\ \A i \in 1..Len(all_hits) :
              LET en == all_hits[i] IN
              IF Key(en) \in Keys(vector_hits)
              THEN /\ en.vector_score = LastVectorScore(Key(en))
                   /\ en.score = LastVectorScore(Key(en))
                   /\ en.source = SourceOf(en.doc_id)
                   /\ en.chunk_metadata = ChunkMeta
                   /\ en.bm25_score = (IF Key(en) \in Keys(bm25_hits) THEN 1 ELSE 0)
              ELSE /\ en.vector_score = 0
                   /\ en.bm25_score = 1

C16_Witness ==
    /\ hpc = "done"
    /\ \E i, j, l \in 1..Len(all_hits) :
          /\ Key(all_hits[i]) \in Keys(vector_hits) \cap Keys(bm25_hits)
          /\ all_hits[i].vector_score = 2
          /\ all_hits[i].bm25_score = 1
          /\ Key(all_hits[j]) \in Keys(vector_hits) \ Keys(bm25_hits)
          /\ Key(all_hits[l]) \in Keys(bm25_hits) \ Keys(vector_hits)

\* C17: when the merged vector_score values are not all equal, every
\* vector_score_norm is (max - score) / (max - min): within [0,1], 1 for the
\* minimum, 0 for the maximum, and strictly larger for a strictly smaller
\* distance.
C17_MinMaxInversion ==
    (hpc = "done" /\ Cardinality(VectorScores) > 1) =>
        LET minv == MinOf(VectorScores)
            maxv == MaxOf(VectorScores)
        IN /\ \A i \in 1..Len(all_hits) :
                 LET en == all_hits[i] IN
                 /\ REq(en.vector_score_norm, <<maxv - en.vector_score, maxv - minv>>)
                 /\ RLeq(Zero, en.vector_score_norm)
                 /\ RLeq(en.vector_score_norm, One)
                 /\ en.vector_score = minv => REq(en.vector_score_norm, One)
                 /\ en.vector_score = maxv => REq(en.vector_score_norm, Zero)
           /\ \A i, j \in 1..Len(all_hits) :
                 all_hits[i].vector_score < all_hits[j].vector_score =>
                     RLt(all_hits[j].vector_score_norm, all_hits[i].vector_score_norm)

C17_Witness ==
    /\ hpc = "done"
    /\ Cardinality(VectorScores) = 3
    /\ \E i \in 1..Len(all_hits) :
          /\ RLt(Zero, all_hits[i].vector_score_norm)
          /\ RLt(all_hits[i].vector_score_norm, One)

\* C18: (all raw distances are >= 0) every lexical-only entry has
\* vector_score_norm 1 and a hybrid_score no lower than that of any entry
\* that came from the vector search.
C18_LexicalOnlyRanksFirst ==
    hpc = "done" =>
        \A i \in 1..Len(all_hits) :
            Key(all_hits[i]) \notin Keys(vector_hits) =>
                /\ all_hits[i].vector_score = 0
                /\ REq(all_hits[i].vector_score_norm, One)
                /\ \A j \in 1..Len(all_hits) :
                      Key(all_hits[j]) \in Keys(vector_hits) =>
                          RLeq(all_hits[j].hybrid_score, all_hits[i].hybrid_score)

\* C19: in a call whose embedder returned, the embedder and the two
\* sub-queries have each been invoked exactly once when the call ends, also
\* when it ends after a failure; nothing is invoked twice, and the merge
\* starts only when both sub-queries have been invoked.
C19_EachCollaboratorOnce ==
    /\ calls.embed <= 1 /\ calls.vector <= 1 /\ calls.bm25 <= 1
    /\ hpc \in {"merge", "done"} => (calls.vector = 1 /\ calls.bm25 = 1)
    /\ (hpc \in {"done", "raised"} /\ failed # "embed") =>
          calls = [embed |-> 1, vector |-> 1, bm25 |-> 1]

C21_LexicalKeyedAtChunkZero ==
    hpc = "done" =>
        /\ \A i \in 1..Len(bm25_hits) : bm25_hits[i].chunk_index = 0
        /\ \A i \in 1..Len(all_hits) :
              /\ all_hits[i].bm25_score = 1 => all_hits[i].chunk_index = 0
              /\ all_hits[i].chunk_index # 0 => all_hits[i].bm25_score = 0
        /\ \A i \in 1..Len(results) :
              /\ results[i].bm25_score = 1 => results[i].chunk_index = 0
              /\ results[i].chunk_index # 0 => results[i].bm25_score = 0
        /\ \A i \in 1..Len(bm25_hits) :
              <<bm25_hits[i].doc_id, 0>> \notin Keys(vector_hits) =>
                  /\ \E j \in 1..Len(all_hits) :
                        /\ Key(all_hits[j]) = <<bm25_hits[i].doc_id, 0>>
                        /\ all_hits[j].vector_score = 0
                        /\ all_hits[j].bm25_score = 1
                  /\ Cardinality(Keys(all_hits)) > Cardinality(Keys(vector_hits))

C21_Witness ==
    /\ hpc = "done"
    /\ \E i \in 1..Len(bm25_hits) :
          LET d == bm25_hits[i].doc_id IN
          /\ <<d, 0>> \notin Keys(vector_hits)
          /\ \E c \in ChunkIdx : c # 0 /\ <<d, c>> \in Keys(vector_hits)
          /\ \E j, k \in 1..Len(results) :
                /\ results[j].doc_id = d /\ results[j].chunk_index # 0
                /\ results[j].bm25_score = 0
                /\ results[k].doc_id = d /\ results[k].chunk_index = 0
                /\ results[k].bm25_score = 1 /\ results[k].vector_score = 0

\* --------------------------------------------------- embedding sessions
MaxName == 2
MaxFile == 1
MaxProg == 1
MaxClock == 4
SessionNames == 1..MaxName
Files == 1..MaxFile
Chunks == 0..MaxProg

\* the row start_session inserts
NewSession(n, t) ==
    [session_name |-> n, started_at |-> t, ended_at |-> None,
     status |-> "active", last_file |-> None, last_chunk |-> None,
     processed_chunks |-> 0]

HasSession(rows, n) == \E i \in 1..Len(rows) : rows[i].session_name = n

\* a query that drops the filter on session_name
FirstByNameUnfiltered(rows, n) == IF rows = <<>> THEN 0 ELSE 1

\* query(EmbeddingSession).filter_by(session_name=n).first(): the position
\* of the row, 0 when the query yields None
FirstByName(rows, n) ==
    IF HasSession(rows, n)
    THEN CHOOSE i \in 1..Len(rows) :
             /\ rows[i].session_name = n
             /\ \A j \in 1..(i - 1) : rows[j].session_name # n
    ELSE 0

\* session.add + commit under the unique constraint on session_name
StartRows(rows, n, t) ==
    IF HasSession(rows, n) THEN rows ELSE Append(rows, NewSession(n, t))

UpdateRows(rows, n, f, c, p) ==
    LET i == FirstByName(rows, n) IN
    IF i = 0 THEN rows
    ELSE [rows EXCEPT ![i].last_file = f, ![i].last_chunk = c,
                      ![i].processed_chunks = p]

CompleteRows(rows, n, t) ==
    LET i == FirstByName(rows, n) IN
    IF i = 0 THEN rows
    ELSE [rows EXCEPT ![i].ended_at = t, ![i].status = "complete"]

FailRows(rows, n) ==
    LET i == FirstByName(rows, n) IN
    IF i = 0 THEN rows ELSE [rows EXCEPT ![i].status = "error"]

\* the value the three lookups return: the session, or None
Returned(rows, n) == IF FirstByName(rows, n) = 0 THEN "None" ELSE "session"

StartSession ==
    /\ now < MaxClock
    /\ \E n \in SessionNames :
          /\ sessions' = StartRows(sessions, n, now + 1)
          /\ sname' = n
          /\ sret' = IF HasSession(sessions, n) THEN "IntegrityError"
                                                ELSE "session"
    /\ sop' = "start"
    /\ now' = now + 1
    /\ UNCHANGED <<hvars, fvars, dvars, evars>>

UpdateSessionProgress ==
    /\ now < MaxClock
    /\ \E n \in SessionNames, f \in Files, c \in Chunks, p \in Chunks :
          /\ sessions' = UpdateRows(sessions, n, f, c, p)
          /\ sname' = n
          /\ sret' = Returned(sessions, n)
    /\ sop' = "update"
    /\ now' = now + 1
    /\ UNCHANGED <<hvars, fvars, dvars, evars>>

CompleteSession ==
    /\ now < MaxClock
    /\ \E n \in SessionNames :
          /\ sessions' = CompleteRows(sessions, n, now + 1)
          /\ sname' = n
          /\ sret' = Returned(sessions, n)
    /\ sop' = "complete"
    /\ now' = now + 1
    /\ UNCHANGED <<hvars, fvars, dvars, evars>>

FailSession ==
    /\ now < MaxClock
    /\ \E n \in SessionNames :
          /\ sessions' = FailRows(sessions, n)
          /\ sname' = n
          /\ sret' = Returned(sessions, n)
    /\ sop' = "fail"
    /\ now' = now + 1
    /\ UNCHANGED <<hvars, fvars, dvars, evars>>

NextSession ==
    \/ StartSession
    \/ UpdateSessionProgress
    \/ CompleteSession
    \/ FailSession

SpecSession == Init /\ [][NextSession]_vars

\* C22: a call of update_session_progress, complete_session or fail_session
\* whose session_name has no session returns None, leaves every row of the
\* sessions table as it was and adds no row, whatever calls came before.
C22_UnknownSessionNoEffect ==
    [][(/\ now' # now
        /\ sop' \in {"update", "complete", "fail"}
        /\ \A i \in 1..Len(sessions) : sessions[i].session_name # sname')
          => (sret' = "None" /\ sessions' = sessions)]_vars

C22_Witness ==
    /\ sop \in {"update", "complete", "fail"}
    /\ sret = "None"
    /\ \A i \in 1..Len(sessions) : sessions[i].session_name # sname
    /\ \E i \in 1..Len(sessions) :
          /\ sessions[i].status = "complete"
          /\ sessions[i].ended_at # None
          /\ sessions[i].last_chunk # None

====
